---------------------------- MODULE Spec2Model ----------------------------
(***************************************************************************)
(* fix_logging.py: a one-shot rewriter of Lua logging statements.          *)
(*                                                                         *)
(* A text is a sequence of one-character strings.  The six re.sub calls    *)
(* of fix_logging are modelled by a small backtracking matcher over such   *)
(* sequences (literals, a greedy character class, the multi-line anchor    *)
(* and an ordered alternation), and the program itself by a state machine  *)
(* over the on-disk file and the position of each invocation.              *)
(***************************************************************************)
EXTENDS Naturals, Sequences, FiniteSets

(***************************************************************************)
(* Bounds of the model.                                                    *)
(***************************************************************************)
\* the longest argument list, counted in argument atoms
MaxArgAtoms == 2
\* the deepest indentation (in spaces) of a print line
MaxIndent == 1
\* the most blank lines in front of a standalone print line
MaxBlank == 1

(***************************************************************************)
(* Literal texts of the patterns and of the replacement templates.         *)
(***************************************************************************)
GuardLit == <<"i", "f", " ", "a", "d", "d", "o", "n", ".", "D", "E", "B", "U", "G", " ", "t", "h", "e", "n">>
PrintLit == <<"p", "r", "i", "n", "t", "(">>
FormatLit == <<"s", "t", "r", "i", "n", "g", ".", "f", "o", "r", "m", "a", "t", "(">>
EndLit == <<"e", "n", "d">>
Quote == <<"\"">>
Close == <<")">>
Space == <<" ">>
Newline == <<"\n">>

Session == <<"S", "e", "s", "s", "i", "o", "n">>
Quality == <<"Q", "u", "a", "l", "i", "t", "y">>
Loading == <<"L", "o", "a", "d", "i", "n", "g">>
Migrating == <<"M", "i", "g", "r", "a", "t", "i", "n", "g">>
TestSession == <<"T", "e", "s", "t", " ", "s", "e", "s", "s", "i", "o", "n">>
SessionDeleted == <<"S", "e", "s", "s", "i", "o", "n", " ", "d", "e", "l", "e", "t", "e", "d">>
SessionsCleared == <<"S", "e", "s", "s", "i", "o", "n", "s", " ", "c", "l", "e", "a", "r", "e", "d">>
NoSessions == <<"N", "o", " ", "s", "e", "s", "s", "i", "o", "n", "s">>

\* r'addon:Debug(\1)': the text before and after the group reference
DebugCall == <<"a", "d", "d", "o", "n", ":", "D", "e", "b", "u", "g", "(">>
\* r'    addon:Debug("'
DebugHead == <<" ", " ", " ", " ", "a", "d", "d", "o", "n", ":", "D", "e", "b", "u", "g", "(", "\"">>
\* r'    addon:Info("'
InfoHead == <<" ", " ", " ", " ", "a", "d", "d", "o", "n", ":", "I", "n", "f", "o", "(", "\"">>

(***************************************************************************)
(* Pattern elements.                                                       *)
(***************************************************************************)
Lit(s) == [type |-> "lit", s |-> s, alts |-> <<>>]
\* ([^)]+): group 1, one or more characters other than ")", greedy
Group == [type |-> "group", s |-> <<>>, alts |-> <<>>]
\* \s*: zero or more whitespace characters, greedy
Ws == [type |-> "ws", s |-> <<>>, alts |-> <<>>]
\* ^ under re.MULTILINE
Bol == [type |-> "bol", s |-> <<>>, alts |-> <<>>]
\* (a|b|...): the alternatives tried in order
Alt(alts) == [type |-> "alt", s |-> <<>>, alts |-> alts]

\* the characters \s matches, as far as a TLA+ string can spell them
IsSpace(c) == c \in {" ", "\t", "\n", "\r", "\f"}

\* the class written as a dot under re.DOTALL: any character at all
NotCloseAny(c) == TRUE

\* a character [^)] matches
NotClose(c) == c # ")"

\* r'if addon\.DEBUG then print\(string\.format\(([^)]+)\)\) end'
Pattern1 ==
    << Lit(GuardLit \o Space \o PrintLit \o FormatLit), Group,
       Lit(Close \o Close \o Space \o EndLit) >>

\* r'if addon\.DEBUG then print\(([^)]+)\) end'
Pattern2 ==
    << Lit(GuardLit \o Space \o PrintLit), Group, Lit(Close \o Space \o EndLit) >>

\* rule 3 written without its \s*: the three lines must follow each other bare
Pattern3Strict ==
    << Lit(GuardLit), Lit(Newline), Lit(PrintLit \o FormatLit), Group,
       Lit(Close \o Close), Lit(Newline), Lit(EndLit) >>

\* r'if addon\.DEBUG then\s*\n\s*print\(string\.format\(([^)]+)\)\)\s*\n\s*end'
Pattern3 ==
    << Lit(GuardLit), Ws, Lit(Newline), Ws, Lit(PrintLit \o FormatLit), Group,
       Lit(Close \o Close), Ws, Lit(Newline), Ws, Lit(EndLit) >>

\* r'if addon\.DEBUG then\s*\n\s*print\(([^)]+)\)\s*\n\s*end'
Pattern4 ==
    << Lit(GuardLit), Ws, Lit(Newline), Ws, Lit(PrintLit), Group,
       Lit(Close), Ws, Lit(Newline), Ws, Lit(EndLit) >>

\* r'^\s*print\(string\.format\("(Session|Quality|Loading|Migrating|Test session)'
Pattern5 ==
    << Bol, Ws, Lit(PrintLit \o FormatLit \o Quote),
       Alt(<<Session, Quality, Loading, Migrating, TestSession>>) >>

\* r'^\s*print\("(Session deleted|Sessions cleared|No sessions)'
Pattern6 ==
    << Bol, Ws, Lit(PrintLit \o Quote),
       Alt(<<SessionDeleted, SessionsCleared, NoSessions>>) >>

Pattern(rule) ==
    CASE rule = 1 -> Pattern1
      [] rule = 2 -> Pattern2
      [] rule = 3 -> Pattern3
      [] rule = 4 -> Pattern4
      [] rule = 5 -> Pattern5
      [] rule = 6 -> Pattern6

(***************************************************************************)
(* The matcher.  A position i means "the next character is t[i]"; a match  *)
(* is [ok, end, cap]: whether the pattern matched, the position after the  *)
(* match, and the text of group 1.                                         *)
(***************************************************************************)
NoMatch == [ok |-> FALSE, end |-> 0, cap |-> <<>>]

\* the literal s stands in t at position i
MatchLit(t, i, s) ==
    /\ i + Len(s) - 1 <= Len(t)
    /\ \A k \in 1..Len(s) : t[i + k - 1] = s[k]

\* a character of the class a repetition runs over: \s, or [^)]
InClass(type, c) == IF type = "ws" THEN IsSpace(c) ELSE NotClose(c)

\* the position after the longest run of characters of the class from i
SpanEnd(type, t, i) ==
    CHOOSE j \in i..(Len(t) + 1) :
        /\ \A k \in i..(j - 1) : InClass(type, t[k])
        /\ j = Len(t) + 1 \/ ~InClass(type, t[j])

RECURSIVE MatchFrom(_, _, _, _)
RECURSIVE TryDown(_, _, _, _, _, _)
RECURSIVE TryAlts(_, _, _, _, _)

\* elements k.. of pat matched against t from position i
MatchFrom(pat, k, t, i) ==
    IF k > Len(pat) THEN [ok |-> TRUE, end |-> i, cap |-> <<>>]
    ELSE LET e == pat[k] IN
         CASE e.type = "lit" ->
                  IF MatchLit(t, i, e.s) THEN MatchFrom(pat, k + 1, t, i + Len(e.s))
                  ELSE NoMatch
           [] e.type = "bol" ->
                  IF i = 1 \/ t[i - 1] = "\n" THEN MatchFrom(pat, k + 1, t, i)
                  ELSE NoMatch
           [] e.type = "ws" ->
                  TryDown(pat, k, t, i, SpanEnd(e.type, t, i), i)
           [] e.type = "group" ->
                  TryDown(pat, k, t, i, SpanEnd(e.type, t, i), i + 1)
           [] e.type = "alt" ->
                  TryAlts(pat, k, t, i, 1)

\* a greedy repetition from i: the longest run first, then shorter ones,
\* down to the run ending at position min
TryDown(pat, k, t, i, j, min) ==
    IF j < min THEN NoMatch
    ELSE LET r == MatchFrom(pat, k + 1, t, j) IN
         IF r.ok
         THEN IF pat[k].type = "group"
              THEN [r EXCEPT !.cap = SubSeq(t, i, j - 1)]
              ELSE r
         ELSE TryDown(pat, k, t, i, j - 1, min)

\* the alternatives of pat[k] from the a-th on
TryAlts(pat, k, t, i, a) ==
    IF a > Len(pat[k].alts) THEN NoMatch
    ELSE LET s == pat[k].alts[a]
             r == IF MatchLit(t, i, s) THEN MatchFrom(pat, k + 1, t, i + Len(s))
                  ELSE NoMatch
         IN IF r.ok THEN r ELSE TryAlts(pat, k, t, i, a + 1)

\* the replacement template of a rule, expanded for a match
Repl(rule, m) ==
    CASE rule \in 1..4 -> DebugCall \o m.cap \o Close
      [] rule = 5 -> DebugHead
      [] rule = 6 -> InfoHead

\* the leftmost position from i on where the rule's pattern matches, or 0
NextMatch(rule, t, i) ==
    LET at == {j \in i..Len(t) : MatchFrom(Pattern(rule), 1, t, j).ok}
    IN IF at = {} THEN 0 ELSE CHOOSE j \in at : \A k \in at : j <= k

RECURSIVE SubFrom(_, _, _)
\* re.sub from position i on: every non-overlapping match, leftmost first
SubFrom(rule, t, i) ==
    LET j == NextMatch(rule, t, i) IN
    IF j = 0 THEN SubSeq(t, i, Len(t))
    ELSE LET m == MatchFrom(Pattern(rule), 1, t, j)
         IN SubSeq(t, i, j - 1) \o Repl(rule, m) \o SubFrom(rule, t, m.end)

\* re.sub(..., count=1): the leftmost match only
SubFirstFrom(rule, t, i) ==
    LET j == NextMatch(rule, t, i) IN
    IF j = 0 THEN SubSeq(t, i, Len(t))
    ELSE LET m == MatchFrom(Pattern(rule), 1, t, j)
         IN SubSeq(t, i, j - 1) \o Repl(rule, m) \o SubSeq(t, m.end, Len(t))

SubFirst(rule, t) == SubFirstFrom(rule, t, 1)
\* content = re.sub(pattern, replacement, content)
Sub(rule, t) == SubFrom(rule, t, 1)

RECURSIVE ApplyRules(_, _)
\* the first n rules applied in order, each to the output of the one before
ApplyRules(t, n) == IF n = 0 THEN t ELSE Sub(n, ApplyRules(t, n - 1))

\* the buffer fix_logging writes back for a buffer it read
Rewrite(t) == ApplyRules(t, 6)


(***************************************************************************)
(* Input texts.  A shape describes a Lua text built around one construct:  *)
(* a guarded print in one of the four forms rules 1-4 are written for, or  *)
(* a standalone print line of the kind rules 5 and 6 are written for.      *)
(***************************************************************************)
RECURSIVE Repeat(_, _)
Repeat(s, n) == IF n = 0 THEN <<>> ELSE s \o Repeat(s, n - 1)

\* the pieces an argument list is put together from
\*   1  "x %s"      2  f(y)      3  a      4  if addon.DEBUG then print(
ArgAtom(a) ==
    CASE a = 1 -> <<"\"", "x", " ", "%", "s", "\"">>
      [] a = 2 -> <<"f", "(", "y", ")">>
      [] a = 3 -> <<"a">>
      [] a = 4 -> GuardLit \o Space \o PrintLit

ArgAtomIds == 1..4

RECURSIVE ArgText(_)
\* the arguments separated by ", "; an opened call takes the next as its first
ArgText(atoms) ==
    IF atoms = <<>> THEN <<>>
    ELSE ArgAtom(Head(atoms))
         \o (IF Len(atoms) > 1 /\ Head(atoms) # 4 THEN <<",", " ">> ELSE <<>>)
         \o ArgText(Tail(atoms))

\* the argument lists of at most MaxArgAtoms atoms
ArgLists == UNION {[1..n -> ArgAtomIds] : n \in 1..MaxArgAtoms}

\* the text in front of the construct
PreText(pre) ==
    CASE pre = 0 -> <<>>
      [] pre = 1 -> <<"l", "o", "c", "a", "l", " ", "x", " ", "=", " ", "5", "\n">>

\* the text behind the construct: nothing, a stray end, or a second guarded print
PostText(post) ==
    CASE post = 0 -> <<>>
      [] post = 1 -> Space \o EndLit
      [] post = 2 -> Newline \o GuardLit \o Space \o PrintLit \o <<"b">> \o Close
                     \o Space \o EndLit

\* the four guarded forms around the argument text A
GuardText(form, ind, A) ==
    CASE form = 1 -> GuardLit \o Space \o PrintLit \o FormatLit \o A \o Close \o Close
                     \o Space \o EndLit
      [] form = 2 -> GuardLit \o Space \o PrintLit \o A \o Close \o Space \o EndLit
      [] form = 3 -> GuardLit \o Newline \o Repeat(Space, ind) \o PrintLit \o FormatLit
                     \o A \o Close \o Close \o Newline \o EndLit
      [] form = 4 -> GuardLit \o Newline \o Repeat(Space, ind) \o PrintLit \o A \o Close
                     \o Newline \o EndLit

\* the literal prefixes rules 5 (1..5) and 6 (6..8) look for
PrefixText(q) ==
    CASE q = 1 -> Session
      [] q = 2 -> Quality
      [] q = 3 -> Loading
      [] q = 4 -> Migrating
      [] q = 5 -> TestSession
      [] q = 6 -> SessionDeleted
      [] q = 7 -> SessionsCleared
      [] q = 8 -> NoSessions

\* what follows the prefix on a standalone print line
RestText(rest) ==
    CASE rest = 0 -> <<":", " ", "%", "s", "\"", ",", " ", "n", "a", "m", "e", ")", ")">>
      [] rest = 1 -> <<" ", "f", "o", "u", "n", "d", "\"", ")">>

\* the head of a standalone print call, up through the opening quote
BareHead(q) == IF q <= 5 THEN PrintLit \o FormatLit \o Quote ELSE PrintLit \o Quote

NoShape ==
    [kind |-> "none", form |-> 0, atoms |-> <<>>, ind |-> 0, blank |-> 0,
     pre |-> 0, post |-> 0, prefix |-> 0, rest |-> 0]

GuardShapes ==
    {[NoShape EXCEPT !.kind = "guard", !.form = f, !.atoms = a, !.ind = i,
                     !.pre = pre, !.post = post] :
        f \in 1..4, a \in ArgLists, i \in 0..MaxIndent, pre \in 0..1, post \in 0..2}

BareShapes ==
    {[NoShape EXCEPT !.kind = "bare", !.prefix = q, !.blank = b, !.ind = i,
                     !.pre = pre, !.rest = r] :
        q \in 1..8, b \in 0..MaxBlank, i \in 0..MaxIndent, pre \in 0..1, r \in 0..1}

\* the single-line forms are not indented
Shapes == {s \in GuardShapes : s.form \in {1, 2} => s.ind = 0} \cup BareShapes

\* the text of a shape
Build(s) ==
    IF s.kind = "guard"
    THEN PreText(s.pre) \o GuardText(s.form, s.ind, ArgText(s.atoms)) \o PostText(s.post)
    ELSE PreText(s.pre) \o Repeat(Newline, s.blank) \o Repeat(Space, s.ind)
         \o BareHead(s.prefix) \o PrefixText(s.prefix) \o RestText(s.rest)

\* the files the whole-program runs start from
RunTexts ==
    { <<>>,
      <<"l", "o", "c", "a", "l", " ", "x", " ", "=", " ", "5">>,
      GuardText(2, 0, ArgAtom(1)),
      GuardText(2, 0, ArgText(<<4, 3>>)) \o PostText(1),
      BareHead(8) \o PrefixText(8) \o RestText(1) }

(***************************************************************************)
(* The program: invocations of fix_logging.py on one path.                 *)
(***************************************************************************)
VARIABLES
    file,      \* the content of the file on disk
    perm,      \* whether the path can be opened for reading and for writing
    argv,      \* per invocation: whether a path argument was given
    pc,        \* per invocation: the statement it is at
    content,   \* per invocation: the local buffer of fix_logging
    out,       \* per invocation: the lines printed so far
    err,       \* per invocation: the step whose error ended it, or "none"
    steps,     \* per invocation: the steps completed so far, in order
    log,       \* the reads, opens-for-write and writes done on the file, in order
    orig,      \* the content of the file before the first invocation
    shape      \* the shape the file was built from

vars == <<file, perm, argv, pc, content, out, err, steps, log, orig, shape>>

Procs == {1, 2}

UsageMsg == "Usage: python fix_logging.py <filename>"
FixedMsg == "Fixed <filename>"

Order ==
    <<"read", "rule1", "rule2", "rule3", "rule4", "rule5", "rule6",
      "open", "write", "confirm">>

\* the statement of rule k, and the statement after it
RulePc(k) == Order[k + 1]
AfterRule(k) == Order[k + 2]

Start(texts, shapes, args, perms, running) ==
    /\ shape \in shapes
    /\ file \in (IF shape.kind = "none" THEN texts ELSE {Build(shape)})
    /\ orig = file
    /\ perm \in perms
    /\ argv \in [Procs -> args]
    /\ pc = [p \in Procs |-> IF p \in running THEN "start" ELSE "off"]
    /\ content = [p \in Procs |-> <<>>]
    /\ out = [p \in Procs |-> <<>>]
    /\ err = [p \in Procs |-> "none"]
    /\ steps = [p \in Procs |-> <<>>]
    /\ log = <<>>

Accessible == [r |-> TRUE, w |-> TRUE]
Perms == {Accessible, [r |-> FALSE, w |-> TRUE], [r |-> TRUE, w |-> FALSE]}

\* p moves to statement s, having completed the step named done
Goto(p, s, done) ==
    /\ pc' = [pc EXCEPT ![p] = s]
    /\ steps' = [steps EXCEPT ![p] = Append(@, done)]

\* p ends with the error of step s propagating out of the program
Raise(p, s) ==
    /\ pc' = [pc EXCEPT ![p] = "failed"]
    /\ err' = [err EXCEPT ![p] = s]

\* a write of s at offset 0 into a file holding f
Overlay(f, s) == s \o SubSeq(f, Len(s) + 1, Len(f))

\* if len(sys.argv) > 1 taken as always true
MainAlways(p) ==
    /\ pc[p] = "start"
    /\ pc' = [pc EXCEPT ![p] = "read"]
    /\ UNCHANGED <<file, perm, argv, content, out, err, steps, log, orig, shape>>

\* if len(sys.argv) > 1: fix_logging(sys.argv[1]) else: print(usage)
Main(p) ==
    /\ pc[p] = "start"
    /\ IF argv[p]
       THEN /\ pc' = [pc EXCEPT ![p] = "read"]
            /\ out' = out
       ELSE /\ pc' = [pc EXCEPT ![p] = "done"]
            /\ out' = [out EXCEPT ![p] = Append(@, UsageMsg)]
    /\ UNCHANGED <<file, perm, argv, content, err, steps, log, orig, shape>>

\* with open(filename, 'r') as f: content = f.read()
Read(p) ==
    /\ pc[p] = "read"
    /\ perm.r
    /\ content' = [content EXCEPT ![p] = file]
    /\ log' = Append(log, [p |-> p, op |-> "read", text |-> file])
    /\ Goto(p, RulePc(1), "read")
    /\ UNCHANGED <<file, perm, argv, out, err, orig, shape>>

\* open(filename, 'r') raises
ReadFail(p) ==
    /\ pc[p] = "read"
    /\ ~perm.r
    /\ Raise(p, "read")
    /\ UNCHANGED <<file, perm, argv, content, out, steps, log, orig, shape>>

\* re.sub(<pattern k>, <replacement k>, content) with its result not assigned
ApplyRuleDropped(p, k) ==
    /\ pc[p] = RulePc(k)
    /\ Goto(p, AfterRule(k), RulePc(k))
    /\ UNCHANGED <<file, perm, argv, content, out, err, log, orig, shape>>

\* content = re.sub(<pattern k>, <replacement k>, content)
ApplyRule(p, k) ==
    /\ pc[p] = RulePc(k)
    /\ content' = [content EXCEPT ![p] = Sub(k, @)]
    /\ Goto(p, AfterRule(k), RulePc(k))
    /\ UNCHANGED <<file, perm, argv, out, err, log, orig, shape>>

Rule1(p) == ApplyRule(p, 1)
Rule2(p) == ApplyRule(p, 2)
Rule3(p) == ApplyRule(p, 3)
Rule4(p) == ApplyRule(p, 4)
Rule5(p) == ApplyRule(p, 5)
Rule6(p) == ApplyRule(p, 6)

\* open(filename, 'r+'): the file keeps its content
OpenWriteKeep(p) ==
    /\ pc[p] = "open"
    /\ perm.w
    /\ log' = Append(log, [p |-> p, op |-> "open", text |-> <<>>])
    /\ Goto(p, "write", "open")
    /\ UNCHANGED <<file, perm, argv, content, out, err, orig, shape>>

\* with open(filename, 'w') as f: the file is truncated
OpenWrite(p) ==
    /\ pc[p] = "open"
    /\ perm.w
    /\ file' = <<>>
    /\ log' = Append(log, [p |-> p, op |-> "open", text |-> <<>>])
    /\ Goto(p, "write", "open")
    /\ UNCHANGED <<perm, argv, content, out, err, orig, shape>>

\* open(filename, 'w') raises: nothing was truncated
OpenWriteFail(p) ==
    /\ pc[p] = "open"
    /\ ~perm.w
    /\ Raise(p, "open")
    /\ UNCHANGED <<file, perm, argv, content, out, steps, log, orig, shape>>

\* the file opened with 'a': the buffer lands behind what the file holds
WriteAppend(p) ==
    /\ pc[p] = "write"
    /\ file' = file \o content[p]
    /\ log' = Append(log, [p |-> p, op |-> "write", text |-> content[p]])
    /\ Goto(p, "confirm", "write")
    /\ UNCHANGED <<perm, argv, content, out, err, orig, shape>>

\* f.write(content), flushed as the with block closes f
Write(p) ==
    /\ pc[p] = "write"
    /\ file' = Overlay(file, content[p])
    /\ log' = Append(log, [p |-> p, op |-> "write", text |-> content[p]])
    /\ Goto(p, "confirm", "write")
    /\ UNCHANGED <<perm, argv, content, out, err, orig, shape>>

\* the error of the write caught and dropped: the run goes on to its last line
WriteFailSwallowed(p) ==
    /\ pc[p] = "write"
    /\ \E n \in 0..Len(content[p]) :
           file' = Overlay(file, SubSeq(content[p], 1, n))
    /\ pc' = [pc EXCEPT ![p] = "confirm"]
    /\ err' = [err EXCEPT ![p] = "write"]
    /\ UNCHANGED <<perm, argv, content, out, steps, log, orig, shape>>

\* f.write or the closing flush raises (disk full, I/O error, interrupt) with
\* the first n characters of the buffer on disk, which may be all of them
WriteFail(p) ==
    /\ pc[p] = "write"
    /\ \E n \in 0..Len(content[p]) :
           file' = Overlay(file, SubSeq(content[p], 1, n))
    /\ Raise(p, "write")
    /\ UNCHANGED <<perm, argv, content, out, steps, log, orig, shape>>

\* print(f"Fixed {filename}")
Confirm(p) ==
    /\ pc[p] = "confirm"
    /\ out' = [out EXCEPT ![p] = Append(@, FixedMsg)]
    /\ Goto(p, "done", "confirm")
    /\ UNCHANGED <<file, perm, argv, content, err, log, orig, shape>>

\* a second invocation on the same path, once the first has ended
Again ==
    /\ pc[1] = "done"
    /\ pc[2] = "off"
    /\ pc' = [pc EXCEPT ![2] = "start"]
    /\ UNCHANGED <<file, perm, argv, content, out, err, steps, log, orig, shape>>

(***************************************************************************)
(* Spec: one invocation, with or without its argument, on a path that may  *)
(* be unreadable or unwritable, and a write that may fail.                 *)
(***************************************************************************)
Init == Start(RunTexts, {NoShape}, BOOLEAN, Perms, {1})

Next ==
    \E p \in Procs :
        \/ Main(p)
        \/ Read(p)
        \/ ReadFail(p)
        \/ Rule1(p)
        \/ Rule2(p)
        \/ Rule3(p)
        \/ Rule4(p)
        \/ Rule5(p)
        \/ Rule6(p)
        \/ OpenWrite(p)
        \/ OpenWriteFail(p)
        \/ Write(p)
        \/ WriteFail(p)
        \/ Confirm(p)

Spec == Init /\ [][Next]_vars

(***************************************************************************)
(* SpecRewrite: the rewrite as a function of the text.  The file is built  *)
(* from a shape; one invocation rewrites it and a second one follows.      *)
(***************************************************************************)
InitRewrite == Start({}, Shapes, {TRUE}, {Accessible}, {1})

NextRewrite ==
    \/ \E p \in Procs :
        \/ Main(p)
        \/ Read(p)
        \/ Rule1(p)
        \/ Rule2(p)
        \/ Rule3(p)
        \/ Rule4(p)
        \/ Rule5(p)
        \/ Rule6(p)
        \/ OpenWrite(p)
        \/ Write(p)
        \/ Confirm(p)
    \/ Again

SpecRewrite == InitRewrite /\ [][NextRewrite]_vars

(***************************************************************************)
(* SpecConc: two invocations on the same path at once, neither failing.    *)
(***************************************************************************)
InitConc == Start(RunTexts, {NoShape}, {TRUE}, {Accessible}, Procs)

NextConc ==
    \E p \in Procs :
        \/ Main(p)
        \/ Read(p)
        \/ Rule1(p)
        \/ Rule2(p)
        \/ Rule3(p)
        \/ Rule4(p)
        \/ Rule5(p)
        \/ Rule6(p)
        \/ OpenWrite(p)
        \/ Write(p)
        \/ Confirm(p)

SpecConc == InitConc /\ [][NextConc]_vars

(***************************************************************************)
(* Vocabulary of the properties.                                           *)
(***************************************************************************)
IsPrefix(s, t) == Len(s) <= Len(t) /\ SubSeq(t, 1, Len(s)) = s
IsSuffix(s, t) == Len(s) <= Len(t) /\ SubSeq(t, Len(t) - Len(s) + 1, Len(t)) = s
Contains(t, s) == \E i \in 1..(Len(t) + 1) : MatchLit(t, i, s)

\* a guard opening stands in the argument text of another: between an
\* "if addon.DEBUG then" and the first ")" after it
Nested(t) ==
    LET at == {i \in 1..Len(t) : MatchLit(t, i, GuardLit)}
    IN \E i, j \in at : i < j /\ \A k \in i..j : t[k] # ")"

\* the first invocation has ended and no second one has begun
Pass1Done == pc[1] = "done" /\ pc[2] = "off"
\* the second invocation has ended
Pass2Done == pc[2] = "done"
BothDone == \A p \in Procs : pc[p] = "done"

\* the entries of the log of one kind, and p's own
Entries(op) == {i \in 1..Len(log) : log[i].op = op}
EntryOf(p, op) == CHOOSE i \in Entries(op) : log[i].p = p
HasEntry(p, op) == \E i \in Entries(op) : log[i].p = p
LastWrite == CHOOSE i \in Entries("write") : \A k \in Entries("write") : k <= i

AtomsOf(s) == {s.atoms[i] : i \in 1..Len(s.atoms)}
\* a guarded print whose argument list holds no parenthesis
ParenFree(s) == s.kind = "guard" /\ AtomsOf(s) \subseteq {1, 3}
\* a guarded print whose argument list holds the nested call f(y), and no
\* guard opening
NestedCall(s) == s.kind = "guard" /\ 2 \in AtomsOf(s) /\ 4 \notin AtomsOf(s)

\* the argument text up to its first closing parenthesis
UpToClose(A) == SubSeq(A, 1, SpanEnd("group", A, 1) - 1)

\* what a rewrite leaves of the text behind the construct
PostOut(post) ==
    IF post = 2 THEN Newline \o DebugCall \o <<"b">> \o Close ELSE PostText(post)

(***************************************************************************)
(* C1.  Idempotence of the whole rewrite, as stated: for every text T the  *)
(* second run writes back what the first run wrote,                        *)
(* rewrite(rewrite(T)) = rewrite(T), texts with nested guards or           *)
(* unbalanced parentheses included.                                        *)
(***************************************************************************)
Idempotent == Pass2Done => file = log[EntryOf(1, "write")].text

(***************************************************************************)
(* C1, amended.  rewrite(rewrite(T)) = rewrite(T) for every text T in      *)
(* which no guard opening stands between another guard opening and the     *)
(* first closing parenthesis after it; unbalanced parentheses are allowed. *)
(***************************************************************************)
IdempotentUnnested ==
    (Pass2Done /\ ~Nested(orig)) => file = log[EntryOf(1, "write")].text

\* a second run over an unbalanced text (a stray end) the first run changed
IdempotentWitness ==
    /\ Pass2Done
    /\ ~Nested(orig)
    /\ shape.post = 1
    /\ log[EntryOf(1, "write")].text # orig

(***************************************************************************)
(* C2.  Rules 5 and 6 rewrite the head of the call up through the opening  *)
(* quote only: a line print(string.format("<P><rest> or print("<Q><rest>   *)
(* at column 0 becomes four spaces, addon:Debug(" or addon:Info(", and     *)
(* then <P><rest> or <Q><rest> with the prefix literal still in place.     *)
(***************************************************************************)
HeadOnlyRewritten ==
    (/\ Pass1Done
     /\ shape.kind = "bare"
     /\ shape.blank = 0 /\ shape.ind = 0 /\ shape.pre = 0)
    => file = (IF shape.prefix <= 5 THEN DebugHead ELSE InfoHead)
              \o PrefixText(shape.prefix) \o RestText(shape.rest)

ArgsVerbatim ==
    (Pass1Done /\ ParenFree(shape))
    => file = PreText(shape.pre) \o DebugCall \o ArgText(shape.atoms) \o Close
              \o PostOut(shape.post)

\* an indented multi-line guarded print, rewritten
ArgsVerbatimWitness ==
    /\ Pass1Done
    /\ ParenFree(shape)
    /\ shape.form \in {3, 4} /\ shape.ind > 0

(***************************************************************************)
(* C5.  Rule isolation: around a construct only one rule matches, every    *)
(* character outside the construct is unchanged; for rules 5 and 6 the     *)
(* lines before the print line, blank ones and their line breaks included, *)
(* are still there.                                                        *)
(***************************************************************************)
Frame ==
    Pass1Done =>
        /\ (ParenFree(shape) /\ shape.post # 2)
           => file = PreText(shape.pre) \o DebugCall \o ArgText(shape.atoms) \o Close
                     \o PostText(shape.post)
        /\ shape.kind = "bare"
           => /\ IsPrefix(PreText(shape.pre) \o Repeat(Newline, shape.blank), file)
              /\ IsSuffix(RestText(shape.rest), file)

(***************************************************************************)
(* C6.  No partial write, as stated: in every state of a run the file      *)
(* holds the whole original text or the whole transformed text, and after  *)
(* a failed write it still holds the original.                             *)
(***************************************************************************)
NoPartialWrite ==
    /\ file \in {orig, Rewrite(orig)}
    /\ \A p \in Procs : err[p] = "write" => file = orig

(***************************************************************************)
(* C6, amended.  Truncate, then write: the file holds the whole original   *)
(* text until it has been opened for writing, and from then on a prefix of *)
(* the transformed text: nothing right after the open, all of it once the  *)
(* write has succeeded, any prefix after a failed write.  A failed open    *)
(* leaves the original in place.                                           *)
(***************************************************************************)
TruncateThenWrite ==
    /\ ~HasEntry(1, "open") => file = orig
    /\ HasEntry(1, "open") => IsPrefix(file, Rewrite(orig))
    /\ pc[1] = "write" => file = <<>>
    /\ HasEntry(1, "write") => file = Rewrite(orig)
    /\ err[1] = "open" => file = orig

\* a failed write has left part of the transformed text, and not the original
PartialWriteWitness ==
    /\ err[1] = "write"
    /\ file # orig
    /\ file # <<>>
    /\ file # Rewrite(orig)

(***************************************************************************)
(* C7.  Usage error: an invocation without a path argument prints the      *)
(* usage message and nothing else; it opens the file neither for reading   *)
(* nor for writing, applies no rule, confirms nothing and raises nothing.  *)
(***************************************************************************)
UsageOnly ==
    \A p \in Procs :
        (~argv[p] /\ pc[p] \notin {"off", "start"})
        => /\ pc[p] = "done"
           /\ out[p] = <<UsageMsg>>
           /\ steps[p] = <<>>
           /\ err[p] = "none"
           /\ \A i \in 1..Len(log) : log[i].p # p
           /\ file = orig

\* an invocation without its argument has ended
UsageWitness == ~argv[1] /\ pc[1] = "done" /\ orig # <<>>

(***************************************************************************)
(* C8.  Step order and failure propagation: the steps of a run are a       *)
(* prefix of read, rule 1 .. rule 6, open and write, confirmation; the     *)
(* buffer after n rules is the n rules applied in order to the text read;  *)
(* a failed read ends the run with nothing done, a failed open or write    *)
(* ends it unconfirmed, and "Fixed" is printed only after the write.       *)
(***************************************************************************)
StepOrder ==
    \A p \in Procs :
        /\ IsPrefix(steps[p], Order)
        /\ \A n \in 0..6 :
               (Len(steps[p]) = n + 1 \/ (n = 6 /\ Len(steps[p]) > 6))
               => content[p] = ApplyRules(log[EntryOf(p, "read")].text, n)
        /\ err[p] = "read" => steps[p] = <<>> /\ out[p] = <<>> /\ ~HasEntry(p, "open")
        /\ err[p] \in {"open", "write"}
           => /\ pc[p] = "failed"
              /\ out[p] = <<>>
              /\ ~HasEntry(p, "write")
        /\ err[p] = "open" => ~HasEntry(p, "open")
        /\ out[p] # <<>> /\ argv[p]
           => /\ out[p] = <<FixedMsg>>
              /\ steps[p] = Order
              /\ HasEntry(p, "write")

\* a run that went through to its confirmation, on a text the rules change
StepOrderWitness ==
    /\ pc[1] = "done"
    /\ out[1] = <<FixedMsg>>
    /\ content[1] # orig

(***************************************************************************)
(* C9.  Last writer wins, as stated: when two concurrent invocations have  *)
(* both completed, the file holds exactly the buffer of the invocation     *)
(* that wrote last.                                                        *)
(***************************************************************************)
LastWriterWins == BothDone => file = log[LastWrite].text

\* the write of the other invocation that fell between the last writer's
\* open-for-write and its write, if any
Between ==
    LET p == log[LastWrite].p
    IN {k \in Entries("write") :
            log[k].p # p /\ EntryOf(p, "open") < k /\ k < LastWrite}

(***************************************************************************)
(* C9, amended.  When both have completed, the file holds exactly the      *)
(* buffer of the invocation that wrote last if the other's write did not   *)
(* fall between the last writer's open-for-write and its write; otherwise  *)
(* it holds the last writer's buffer laid over the start of the other's,   *)
(* the rest of the other's buffer still behind it.                         *)
(***************************************************************************)
LastWriterOverlays ==
    BothDone =>
        /\ Between = {} => file = log[LastWrite].text
        /\ \A k \in Between : file = Overlay(log[k].text, log[LastWrite].text)

\* the last writer wrote an empty buffer over the other's output
LastWriterWitness ==
    /\ BothDone
    /\ Between # {}
    /\ file # log[LastWrite].text

(***************************************************************************)
(* C10.  Concurrent runs lose no content, as stated: when both have        *)
(* completed the file holds rewrite(T), and neither ever read anything but *)
(* the original or the rewritten text.                                     *)
(***************************************************************************)
NoContentLost ==
    /\ BothDone => file = Rewrite(orig)
    /\ \A i \in Entries("read") : log[i].text \in {orig, Rewrite(orig)}

(***************************************************************************)
(* C10, amended.  When both have completed, the file holds rewrite(T),     *)
(* rewrite(rewrite(T)) or nothing at all; it holds rewrite(T) when both    *)
(* read before either opened the file for writing.                         *)
(***************************************************************************)
ConcurrentOutcomes ==
    BothDone =>
        /\ file \in {Rewrite(orig), Rewrite(Rewrite(orig)), <<>>}
        /\ (\A i \in Entries("read") : \A k \in Entries("open") : i < k)
           => file = Rewrite(orig)

\* both completed and the text is gone
ContentLostWitness == BothDone /\ orig # <<>> /\ file = <<>>
=============================================================================
